---------------------------- MODULE Spec2Model ----------------------------
(***************************************************************************)
(* A model of ds_toolkit/common/files.py: the filesystem helpers of        *)
(* ds-toolkit, over an explicit POSIX filesystem.                           *)
(*                                                                         *)
(* A path is the sequence of its components below the filesystem root      *)
(* (<<"a", "b">> is /a/b, <<>> is /).  The filesystem maps every path to   *)
(* an entry: nothing, a regular file with its bytes, a directory, or a     *)
(* dangling symbolic link (a link whose target does not resolve).          *)
(* The os / shutil / str primitives the module calls are modelled by what  *)
(* CPython 3.11 does on a single POSIX device (the module calls os.mknod,  *)
(* which exists on POSIX only).                                            *)
(***************************************************************************)
EXTENDS Integers, Sequences, FiniteSets, TLC

\* ------------------------------------------------------------------ bounds

\* Names a path component can take.
Names == {"a", "b"}

\* Longest path, in components.
MaxDepth == 3

\* Longest path given to a call of Spec and SpecRace, or there before the
\* first call (a call may leave entries at longer paths).
MaxCallDepth == 2

\* Most entries (files, directories, links) of a filesystem a call is made on
\* in Spec and SpecRace.
MaxEntries == 2

\* Most entries, beside the two top directories, of an initial filesystem of
\* SpecTree.
MaxTreeEntries == 3

\* Longest text written to or held by a file in SpecText.
MaxLen == 3

\* ------------------------------------------------------------------- paths

Paths == UNION {[1..n -> Names] : n \in 1..MaxDepth}

Root == <<>>

IsPrefix(p, q) == Len(p) <= Len(q) /\ SubSeq(q, 1, Len(p)) = p

\* os.path.split(path): (head, tail), head the parent, tail the last component.
os_path_split(p) ==
    IF p = <<>> THEN [head |-> <<>>, tail |-> <<>>]
    ELSE [head |-> SubSeq(p, 1, Len(p) - 1), tail |-> <<p[Len(p)]>>]

Parent(p) == os_path_split(p).head

\* A name given to os.path.join as its second argument: a relative name of one
\* or more components, or an absolute one, written with a leading "/".
IsAbs(n) == n # <<>> /\ n[1] = "/"

\* os.path.join(head, name): an absolute second argument discards the first.
os_path_join(head, n) == IF IsAbs(n) THEN Tail(n) ELSE head \o n

\* -------------------------------------------------------------- filesystem

\* The characters of a text: two letters, carriage return and line feed.
CR == "CR"

LF == "LF"

Chars == {"a", "b", CR, LF}

NoEntry == [kind |-> "none", data |-> <<>>]

DirEntry == [kind |-> "dir", data |-> <<>>]

LinkEntry == [kind |-> "link", data |-> <<>>]

FileEntry(d) == [kind |-> "file", data |-> d]

EmptyFS == [p \in Paths |-> NoEntry]

Entry(f, p) ==
    IF p = Root THEN DirEntry
    ELSE IF p \in Paths THEN f[p]
    ELSE NoEntry

Kind(f, p) == Entry(f, p).kind

Entries(f) == {p \in Paths : f[p].kind # "none"}

IsEmptyDir(f, p) == \A q \in Paths : Parent(q) = p => f[q].kind = "none"

\* Every entry lies in a directory.
WellFormed(f) == \A p \in Entries(f) : Kind(f, Parent(p)) = "dir"

Ok(f) == [fs |-> f, err |-> "ok"]

Fail(f, e) == [fs |-> f, err |-> e]

\* The error of resolving a path whose parent is not a directory: ENOTDIR when
\* the walk meets a regular file, ENOENT when it meets nothing or a dangling link.
PathErr(f, p) ==
    LET bad == {n \in 1..Len(p) : Kind(f, SubSeq(p, 1, n)) # "dir"}
        first == CHOOSE n \in bad : \A m \in bad : n <= m
    IN  IF Kind(f, SubSeq(p, 1, first)) = "file" THEN "NotADirectoryError"
        ELSE "FileNotFoundError"

os_path_isfile(f, p) == Kind(f, p) = "file"

os_path_isdir(f, p) == Kind(f, p) = "dir"

\* os.path.exists follows links: a dangling link does not exist.
os_path_exists(f, p) == Kind(f, p) \in {"file", "dir"}

\* os.mknod(path): a new empty regular file; EEXIST on any existing entry.
os_mknod(f, p) ==
    IF Kind(f, p) # "none" THEN Fail(f, "FileExistsError")
    ELSE IF Kind(f, Parent(p)) # "dir" THEN Fail(f, PathErr(f, Parent(p)))
    ELSE IF Len(p) > MaxDepth THEN Fail(f, "bound")
    ELSE Ok([f EXCEPT ![p] = FileEntry(<<>>)])

\* open(path, 'w+') then write(data) on POSIX: the file is created or truncated
\* and holds data, "\n" written as os.linesep, which is "\n".
open_write(f, p, data) ==
    IF Kind(f, p) = "dir" THEN Fail(f, "IsADirectoryError")
    ELSE IF Kind(f, Parent(p)) # "dir" THEN Fail(f, PathErr(f, Parent(p)))
    ELSE IF Kind(f, p) = "link" THEN Fail(f, "FileNotFoundError")
    ELSE IF Len(p) > MaxDepth THEN Fail(f, "bound")
    ELSE Ok([f EXCEPT ![p] = FileEntry(data)])

\* Text mode with newline=None on reading: "\r\n" and a lone "\r" become "\n".
RECURSIVE UniversalNewlines(_)
UniversalNewlines(s) ==
    IF s = <<>> THEN <<>>
    ELSE IF s[1] = CR
         THEN IF Len(s) >= 2 /\ s[2] = LF
              THEN <<LF>> \o UniversalNewlines(SubSeq(s, 3, Len(s)))
              ELSE <<LF>> \o UniversalNewlines(Tail(s))
         ELSE <<s[1]>> \o UniversalNewlines(Tail(s))

\* open(path, 'r') then read(): the decoded text of the file.
open_read(f, p) ==
    IF Kind(f, p) = "dir" THEN [text |-> <<>>, err |-> "IsADirectoryError"]
    ELSE IF Kind(f, p) # "file"
         THEN [text |-> <<>>,
               err |-> IF Kind(f, Parent(p)) # "dir" THEN PathErr(f, Parent(p))
                       ELSE "FileNotFoundError"]
    ELSE [text |-> UniversalNewlines(f[p].data), err |-> "ok"]

\* The filesystem with the entry at src, and all below it, now at dst.
Relocate(f, src, dst) ==
    [q \in Paths |->
        IF IsPrefix(dst, q)
        THEN Entry(f, src \o SubSeq(q, Len(dst) + 1, Len(q)))
        ELSE IF IsPrefix(src, q) THEN NoEntry
        ELSE f[q]]

\* Whether the tree at src, put at dst, stays within MaxDepth.
FitsAt(f, src, dst) ==
    /\ Len(dst) <= MaxDepth
    /\ \A q \in Entries(f) : IsPrefix(src, q) => Len(dst) + Len(q) - Len(src) <= MaxDepth

\* os.rename(src, dst), that is rename(2): both parents are resolved before
\* src is looked up; replaces a file or link at dst by a file or link, an empty
\* directory at dst by a directory; ENOTEMPTY when dst is an ancestor of src.
os_rename(f, src, dst) ==
    LET sk == Kind(f, src)
        dk == Kind(f, dst)
    IN  IF src = Root \/ dst = Root THEN Fail(f, "OSError")
        ELSE IF Kind(f, Parent(src)) # "dir" THEN Fail(f, PathErr(f, Parent(src)))
        ELSE IF Kind(f, Parent(dst)) # "dir" THEN Fail(f, PathErr(f, Parent(dst)))
        ELSE IF sk = "none" THEN Fail(f, "FileNotFoundError")
        ELSE IF src = dst THEN Ok(f)
        ELSE IF IsPrefix(src, dst) \/ IsPrefix(dst, src) THEN Fail(f, "OSError")
        ELSE IF sk = "dir"
            THEN IF dk \in {"file", "link"} THEN Fail(f, "NotADirectoryError")
                 ELSE IF dk = "dir" /\ ~IsEmptyDir(f, dst) THEN Fail(f, "OSError")
                 ELSE IF ~FitsAt(f, src, dst) THEN Fail(f, "bound")
                 ELSE Ok(Relocate(f, src, dst))
        ELSE IF dk = "dir" THEN Fail(f, "IsADirectoryError")
        ELSE IF ~FitsAt(f, src, dst) THEN Fail(f, "bound")
        ELSE Ok(Relocate(f, src, dst))

\* os.makedirs(path): the missing ancestors, then path itself.
os_makedirs(f, p) ==
    IF p = Root \/ Kind(f, p) # "none" THEN Fail(f, "FileExistsError")
    ELSE IF \E n \in 1..(Len(p) - 1) : Kind(f, SubSeq(p, 1, n)) \in {"file", "link"}
        THEN Fail(f, PathErr(f, Parent(p)))
    ELSE IF Len(p) > MaxDepth THEN Fail(f, "bound")
    ELSE Ok([q \in Paths |-> IF IsPrefix(q, p) THEN DirEntry ELSE f[q]])

\* shutil.move's steps after real_dst is known: os.rename, and when that raises
\* OSError, a copy of src to real_dst followed by the removal of src; the copy
\* of a file opens src first.
MoveTo(f, src, dst, real_dst) ==
    LET r == os_rename(f, src, real_dst)
    IN  IF r.err \in {"ok", "bound"} THEN r
        ELSE IF Kind(f, src) = "dir"
            THEN IF IsPrefix(src, dst) THEN Fail(f, "Error")
                 ELSE LET m == os_makedirs(f, real_dst)
                      IN  IF m.err # "ok" THEN Fail(f, m.err)
                          ELSE IF ~FitsAt(f, src, real_dst) THEN Fail(f, "bound")
                          ELSE Ok(Relocate(m.fs, src, real_dst))
        ELSE IF Kind(f, src) = "none"
            THEN Fail(f, IF Kind(f, Parent(src)) # "dir" THEN PathErr(f, Parent(src))
                         ELSE "FileNotFoundError")
        ELSE Fail(f, r.err)

\* shutil.move(src, dst): into dst when dst is a directory, onto dst otherwise.
shutil_move(f, src, dst) ==
    IF os_path_isdir(f, dst)
    THEN IF src = dst THEN os_rename(f, src, dst)
         ELSE IF src = Root THEN Fail(f, "Error")
         ELSE LET real_dst == os_path_join(dst, os_path_split(src).tail)
              IN  IF os_path_exists(f, real_dst) THEN Fail(f, "Error")
                  ELSE MoveTo(f, src, dst, real_dst)
    ELSE MoveTo(f, src, dst, dst)

\* os.remove(path) of a regular file.
os_remove(f, p) == Ok([f EXCEPT ![p] = NoEntry])

\* shutil.rmtree(path) of a directory: the directory and all below it.
shutil_rmtree(f, p) ==
    IF p = Root THEN Fail(f, "OSError")
    ELSE Ok([q \in Paths |-> IF IsPrefix(p, q) THEN NoEntry ELSE f[q]])


\* ------------------------------------------------- ds_toolkit.common.files

\* The concatenation of a sequence of sequences.
RECURSIVE JoinAll(_)
JoinAll(ss) == IF ss = <<>> THEN <<>> ELSE ss[1] \o JoinAll(Tail(ss))

\* The orders in which the OS may report the names of a directory.
NameOrders ==
    {s \in [1..Cardinality(Names) -> Names] :
        \A i, j \in 1..Cardinality(Names) : s[i] = s[j] => i = j}

\* os.listdir(folder_path): the names of the entries of a directory, in the
\* order ord of the OS.
os_listdir(f, folder_path, ord) ==
    SelectSeq(ord, LAMBDA n : Kind(f, folder_path \o <<n>>) # "none")

\* os.walk(top), top-down, links not followed: one (root, directories, files)
\* per directory, files being the entries that are no directory.  A top that
\* is no directory yields nothing (the scandir error is ignored).
RECURSIVE os_walk(_, _, _)
os_walk(f, top, ord) ==
    IF ~os_path_isdir(f, top) THEN <<>>
    ELSE LET names == os_listdir(f, top, ord)
             dirs == SelectSeq(names, LAMBDA n : Kind(f, top \o <<n>>) = "dir")
             files == SelectSeq(names, LAMBDA n : Kind(f, top \o <<n>>) # "dir")
         IN  <<[root |-> top, directories |-> dirs, files |-> files]>>
             \o JoinAll([i \in 1..Len(dirs) |-> os_walk(f, top \o <<dirs[i]>>, ord)])

\* list_dir_tree that lists root_folder itself and walks no subdirectory.
list_dir_tree_flat(f, root_folder, ord) ==
    LET walk == os_walk(f, root_folder, ord)
    IN  IF walk = <<>> THEN <<>>
        ELSE [i \in 1..Len(walk[1].files) |-> os_path_join(walk[1].root, <<walk[1].files[i]>>)]

list_dir_tree(f, root_folder, ord) ==
    LET walk == os_walk(f, root_folder, ord)
        found(w) ==
            SelectSeq([i \in 1..Len(w.files) |-> os_path_join(w.root, <<w.files[i]>>)],
                      LAMBDA fp : ~os_path_isdir(f, fp))
    IN  JoinAll([i \in 1..Len(walk) |-> found(walk[i])])

create_file(f, file_path) ==
    IF os_path_isfile(f, file_path) THEN Fail(f, "FileExistsError")
    ELSE os_mknod(f, file_path)

\* write_to_file with overwrite not looked at: it always writes.
write_to_file_always(f, file_path, data, overwrite) == open_write(f, file_path, data)

write_to_file(f, file_path, data, overwrite) ==
    IF ~overwrite /\ os_path_isfile(f, file_path) THEN Fail(f, "FileExistsError")
    ELSE open_write(f, file_path, data)

read_file(f, file_path) == open_read(f, file_path)

delete_file(f, file_path) ==
    IF os_path_isfile(f, file_path) THEN os_remove(f, file_path) ELSE Ok(f)

\* move_file with its existence check left out.
MoveGuard_absent(f, to_file_path) == FALSE

\* The existence check of move_file: whether it raises FileExistsError.
MoveGuard(f, to_file_path) == os_path_isfile(f, to_file_path)

move_file(f, from_file_path, to_file_path) ==
    IF MoveGuard(f, to_file_path) THEN Fail(f, "FileExistsError")
    ELSE shutil_move(f, from_file_path, to_file_path)

\* rename_file with its existence check left out.
rename_file_unguarded(f, file_path, new_name) ==
    os_rename(f, file_path, os_path_join(os_path_split(file_path).head, new_name))

rename_file(f, file_path, new_name) ==
    LET head == os_path_split(file_path).head
        to_file_path == os_path_join(head, new_name)
    IN  IF os_path_isfile(f, to_file_path) THEN Fail(f, "FileExistsError")
        ELSE os_rename(f, file_path, to_file_path)

\* make_folder without its test for an existing directory.
make_folder_unchecked(f, folder_path) == os_makedirs(f, folder_path)

make_folder(f, folder_path) ==
    IF ~os_path_isdir(f, folder_path) THEN os_makedirs(f, folder_path) ELSE Ok(f)

delete_folder(f, folder_path) ==
    IF os_path_isdir(f, folder_path) THEN shutil_rmtree(f, folder_path) ELSE Ok(f)

\* str.replace(old, ''): the occurrences of old, found left to right without
\* overlap, are dropped.
RECURSIVE str_replace(_, _)
str_replace(text, old) ==
    IF Len(text) < Len(old) THEN text
    ELSE IF SubSeq(text, 1, Len(old)) = old
         THEN str_replace(SubSeq(text, Len(old) + 1, Len(text)), old)
         ELSE <<text[1]>> \o str_replace(Tail(text), old)

\* The loop over remove_chars.
RECURSIVE RemoveAll(_, _)
RemoveAll(text, remove_chars) ==
    IF remove_chars = <<>> THEN text
    ELSE RemoveAll(str_replace(text, remove_chars[1]), Tail(remove_chars))

fix_encoding(f, file_path, remove_chars) ==
    LET r == open_read(f, file_path)
    IN  IF r.err # "ok" THEN Fail(f, r.err)
        ELSE open_write(f, file_path, RemoveAll(r.text, remove_chars))

\* The loop of move_all_files_from_root from the i-th listed path on: done is
\* the number of listed paths dealt with before the loop ended.
RECURSIVE MoveEach(_, _, _, _)
MoveEach(f, file_paths, i, to_folder) ==
    IF i > Len(file_paths) THEN [fs |-> f, err |-> "ok", done |-> Len(file_paths)]
    ELSE LET file_path == file_paths[i]
             tail == os_path_split(file_path).tail
             r == move_file(f, file_path, os_path_join(to_folder, tail))
         IN  IF ~os_path_isfile(f, file_path) THEN MoveEach(f, file_paths, i + 1, to_folder)
             ELSE IF r.err # "ok" THEN [fs |-> f, err |-> r.err, done |-> i - 1]
             ELSE MoveEach(r.fs, file_paths, i + 1, to_folder)

\* move_all_files_from_root that puts the files back when a move raises.
move_all_files_from_root_undo(f, root_folder, to_folder, ord) ==
    LET r == MoveEach(f, list_dir_tree(f, root_folder, ord), 1, to_folder)
    IN  IF r.err = "ok" THEN r ELSE [r EXCEPT !.fs = f]

move_all_files_from_root(f, root_folder, to_folder, ord) ==
    MoveEach(f, list_dir_tree(f, root_folder, ord), 1, to_folder)


\* -------------------------------------------------------------------- state

VARIABLES
    fs,     \* the filesystem
    pre,    \* the filesystem before the step that ended the last call
    call,   \* the call in progress or just returned: the function, its arguments
            \* and what it returned or raised
    pc,     \* the caller: "idle", "checked" (inside move_file, between its
            \* existence check and its move) or "returned"
    ext     \* the paths another process created a file at since the existence
            \* check of the move_file in progress

vars == <<fs, pre, call, pc, ext>>

NoCall ==
    [op |-> "none", path |-> <<>>, arg |-> <<>>, data |-> <<>>, overwrite |-> FALSE,
     remove_chars |-> <<>>, ord |-> <<>>, err |-> "ok", text |-> <<>>,
     list |-> <<>>, done |-> 0]

\* The contents the files of Spec, SpecTree and SpecRace hold or are given.
Data == {<<>>, <<"a">>}

\* The texts of SpecText: every string of at most MaxLen characters.
Texts == UNION {[1..n -> Chars] : n \in 0..MaxLen}

\* The new_name arguments of rename_file: a bare name, a relative name with a
\* separator in it ("a/b"), an absolute one ("/a", "/a/b").
NewNames ==
    {<<n>> : n \in Names} \cup {<<n, m>> : n, m \in Names}
    \cup {<<"/", n>> : n \in Names} \cup {<<"/", n, m>> : n, m \in Names}

\* The remove_chars arguments of fix_encoding: None (the empty list here), or a
\* list of one or two non-empty strings of one or two characters.
Strings == UNION {[1..n -> Chars] : n \in 1..2}

RemoveLists == {<<>>} \cup {<<x>> : x \in Strings} \cup {<<x, y>> : x, y \in Strings}

\* The path arguments of Spec and SpecRace.
CallPaths == {p \in Paths : Len(p) <= MaxCallDepth}

\* The root_folder and to_folder arguments of SpecTree: the top directories
\* and the paths right below them.
Folders == {p \in Paths : Len(p) <= 2}

\* The file SpecText writes, reads and repairs.
TextPath == <<"a">>

\* The filesystems that are base with at most n more entries, at paths of
\* where, files holding a content of Data.
RECURSIVE FSFrom(_, _, _)
FSFrom(base, n, where) ==
    IF n = 0 THEN {base}
    ELSE LET less == FSFrom(base, n - 1, where)
             new == {LinkEntry, DirEntry} \cup {FileEntry(d) : d \in Data}
         IN  less \cup
             {[t[1] EXCEPT ![t[2]] = t[3]] :
                 t \in {u \in less \X where \X new :
                          Kind(u[1], u[2]) = "none" /\ Kind(u[1], Parent(u[2])) = "dir"}}

\* A directory /a and a directory /b.
TwoFolders == [p \in Paths |-> IF Len(p) = 1 THEN DirEntry ELSE NoEntry]

Idle == pre = EmptyFS /\ call = NoCall /\ pc = "idle" /\ ext = {}

Init == fs \in FSFrom(EmptyFS, MaxEntries, CallPaths) /\ Idle

InitTree == fs \in FSFrom(TwoFolders, MaxTreeEntries, Paths) /\ Idle

InitText ==
    /\ fs \in {EmptyFS} \cup {[EmptyFS EXCEPT ![TextPath] = FileEntry(t)] : t \in Texts}
    /\ Idle

\* The filesystem is small enough for one more call to be made on it.
Small == Cardinality(Entries(fs)) <= MaxEntries

\* A call made by an idle caller runs to its end: c is the call, r its outcome.
\* A call whose effect would leave the modelled paths is not made.
Returns(c, r) ==
    /\ pc = "idle"
    /\ r.err # "bound"
    /\ fs' = r.fs
    /\ pre' = fs
    /\ call' = [c EXCEPT !.err = r.err]
    /\ pc' = "returned"
    /\ ext' = {}

CreateFile(p) ==
    Returns([NoCall EXCEPT !.op = "create_file", !.path = p], create_file(fs, p))

WriteToFile(p, data, overwrite) ==
    Returns([NoCall EXCEPT !.op = "write_to_file", !.path = p, !.data = data,
                           !.overwrite = overwrite],
            write_to_file(fs, p, data, overwrite))

ReadFile(p) ==
    LET r == read_file(fs, p)
    IN  Returns([NoCall EXCEPT !.op = "read_file", !.path = p, !.text = r.text],
                [fs |-> fs, err |-> r.err])

DeleteFile(p) ==
    Returns([NoCall EXCEPT !.op = "delete_file", !.path = p], delete_file(fs, p))

MoveFile(p, q) ==
    Returns([NoCall EXCEPT !.op = "move_file", !.path = p, !.arg = q], move_file(fs, p, q))

RenameFile(p, n) ==
    Returns([NoCall EXCEPT !.op = "rename_file", !.path = p, !.arg = n],
            rename_file(fs, p, n))

MakeFolder(p) ==
    Returns([NoCall EXCEPT !.op = "make_folder", !.path = p], make_folder(fs, p))

DeleteFolder(p) ==
    Returns([NoCall EXCEPT !.op = "delete_folder", !.path = p], delete_folder(fs, p))

FixEncoding(p, remove_chars) ==
    Returns([NoCall EXCEPT !.op = "fix_encoding", !.path = p,
                           !.remove_chars = remove_chars],
            fix_encoding(fs, p, remove_chars))

ListDirTree(p, ord) ==
    Returns([NoCall EXCEPT !.op = "list_dir_tree", !.path = p, !.ord = ord,
                           !.list = list_dir_tree(fs, p, ord)],
            Ok(fs))

MoveAllFilesFromRoot(p, q, ord) ==
    LET r == move_all_files_from_root(fs, p, q, ord)
    IN  Returns([NoCall EXCEPT !.op = "move_all_files_from_root", !.path = p, !.arg = q,
                               !.ord = ord, !.list = list_dir_tree(fs, p, ord),
                               !.done = r.done],
                [fs |-> r.fs, err |-> r.err])

\* move_file up to its existence check, with another process running: the
\* check raises, or the caller stands between the check and the move.
MoveFileCheck(p, q) ==
    /\ pc = "idle"
    /\ pre' = fs
    /\ ext' = {}
    /\ UNCHANGED fs
    /\ IF MoveGuard(fs, q)
       THEN /\ call' = [NoCall EXCEPT !.op = "move_file", !.path = p, !.arg = q,
                                      !.err = "FileExistsError"]
            /\ pc' = "returned"
       ELSE /\ call' = [NoCall EXCEPT !.op = "move_file", !.path = p, !.arg = q]
            /\ pc' = "checked"

\* Another process creates a file at the destination while move_file stands
\* after its check.
ExtCreateFile(d) ==
    LET q == call.arg
    IN  /\ pc = "checked"
        /\ Kind(fs, q) = "none"
        /\ Kind(fs, Parent(q)) = "dir"
        /\ fs' = [fs EXCEPT ![q] = FileEntry(d)]
        /\ ext' = ext \cup {q}
        /\ UNCHANGED <<pre, call, pc>>

\* move_file from its check on: the shutil.move.
MoveFileMove ==
    LET r == shutil_move(fs, call.path, call.arg)
    IN  /\ pc = "checked"
        /\ r.err # "bound"
        /\ fs' = r.fs
        /\ pre' = fs
        /\ call' = [call EXCEPT !.err = r.err]
        /\ pc' = "returned"
        /\ UNCHANGED ext

\* The caller goes on to its next call.
Return ==
    /\ pc = "returned"
    /\ pc' = "idle"
    /\ pre' = EmptyFS
    /\ call' = NoCall
    /\ ext' = {}
    /\ UNCHANGED fs

Next ==
    \/ Small /\ \E p \in CallPaths : CreateFile(p)
    \/ Small /\ \E p \in CallPaths, d \in Data, o \in BOOLEAN : WriteToFile(p, d, o)
    \/ Small /\ \E p \in CallPaths : ReadFile(p)
    \/ Small /\ \E p \in CallPaths : DeleteFile(p)
    \/ Small /\ \E p, q \in CallPaths : MoveFile(p, q)
    \/ Small /\ \E p \in CallPaths, n \in NewNames : RenameFile(p, n)
    \/ Small /\ \E p \in CallPaths : MakeFolder(p)
    \/ Small /\ \E p \in CallPaths : DeleteFolder(p)
    \/ Return

\* One caller, its calls one after the other.
Spec == Init /\ [][Next]_vars

NextTree ==
    \/ \E p \in Folders, ord \in NameOrders : ListDirTree(p, ord)
    \/ \E p, q \in Folders, ord \in NameOrders : MoveAllFilesFromRoot(p, q, ord)
    \/ Return

\* The tree functions, on a directory /a and a directory /b with entries in them.
SpecTree == InitTree /\ [][NextTree]_vars

NextText ==
    \/ \E d \in Texts, o \in BOOLEAN : WriteToFile(TextPath, d, o)
    \/ ReadFile(TextPath)
    \/ \E rc \in RemoveLists : FixEncoding(TextPath, rc)
    \/ Return

\* The text functions, on one file of any text.
SpecText == InitText /\ [][NextText]_vars

NextRace ==
    \/ Small /\ \E p, q \in CallPaths : MoveFileCheck(p, q)
    \/ \E d \in Data : ExtCreateFile(d)
    \/ MoveFileMove
    \/ Return

\* move_file in its two steps, with another process creating files.
SpecRace == Init /\ [][NextRace]_vars

\* ------------------------------------------------------------------ claims

Returned(op) == pc = "returned" /\ call.op = op

Base(p) == p[Len(p)]

\* The files of filesystem f that hold d.
Holding(f, d) == {p \in Paths : os_path_isfile(f, p) /\ f[p].data = d}

\* The calls whose contract forbids overwriting, and the path each would write.
Guarded(c) ==
    \/ c.op \in {"create_file", "move_file", "rename_file"}
    \/ c.op = "write_to_file" /\ ~c.overwrite

TargetOf(c) ==
    CASE c.op = "move_file" -> c.arg
      [] c.op = "rename_file" -> os_path_join(Parent(c.path), c.arg)
      [] OTHER -> c.path

\* C1: a create_file, a write_to_file with overwrite=False, a move_file or a
\* rename_file whose target path is a file raises FileExistsError and leaves
\* the filesystem as it was, the source file of a move or rename included.
C1_OverwriteGuard ==
    (pc = "returned" /\ Guarded(call) /\ os_path_isfile(pre, TargetOf(call)))
        => (call.err = "FileExistsError" /\ fs = pre)

\* A move_file of a file onto another file has raised.
C1_Witness ==
    /\ Returned("move_file")
    /\ os_path_isfile(pre, call.path)
    /\ os_path_isfile(pre, call.arg)
    /\ call.path # call.arg
    /\ pre[call.path] # pre[call.arg]
    /\ call.err = "FileExistsError"

\* The move_all_files_from_root that returned or raised: the listed paths, the
\* place move_file was asked to put the i-th, and the index of the path whose
\* move raised.
Listed == call.list

Dest(i) == os_path_join(call.arg, <<Base(Listed[i])>>)

Failed == call.done + 1

\* Two listed files of the same basename, the first of them moved to its
\* place right in to_folder.
Collide(i, j) ==
    /\ i < j
    /\ os_path_isfile(pre, Listed[i])
    /\ os_path_isfile(pre, Listed[j])
    /\ Base(Listed[i]) = Base(Listed[j])
    /\ i <= call.done
    /\ ~os_path_isdir(pre, Dest(i))

C3_Flattening ==
    (/\ Returned("move_all_files_from_root")
     /\ call.err = "ok"
     /\ os_path_isdir(pre, call.path)
     /\ os_path_isdir(pre, call.arg)
     /\ ~IsPrefix(call.path, call.arg))
        => \A p \in Paths :
              IsPrefix(call.path, p) =>
                  /\ os_path_isfile(pre, p) =>
                        fs[os_path_join(call.arg, <<Base(p)>>)] = pre[p]
                  /\ ~os_path_isfile(fs, p)
                  /\ os_path_isdir(pre, p) => os_path_isdir(fs, p)

\* C4: after write_to_file(p, data) with overwrite=True, read_file(p) returns
\* data, whatever p held before.
C4_RoundTrip ==
    (Returned("write_to_file") /\ call.overwrite /\ call.err = "ok")
        => read_file(fs, call.path) = [text |-> call.data, err |-> "ok"]

\* The entries under the root of the list_dir_tree that returned.
Under(kinds) == {p \in Paths : IsPrefix(call.path, p) /\ Kind(pre, p) \in kinds}

\* Every listed path is one of S, and every path of S is listed once.
ListsExactly(S) ==
    /\ Len(Listed) = Cardinality(S)
    /\ \A p \in S : \E i \in 1..Len(Listed) : Listed[i] = p
    /\ \A i \in 1..Len(Listed) : Listed[i] \in S

\* C5 as stated: list_dir_tree(root) of a directory lists each regular file
\* under root once and nothing else, so its length is the number of regular
\* files of the tree.
C5_RegularFilesOnly ==
    (Returned("list_dir_tree") /\ os_path_isdir(pre, call.path))
        => ListsExactly(Under({"file"}))

\* C5 as amended: list_dir_tree(root) of a directory lists once each entry
\* under root that is not a directory, dangling links as well as regular
\* files, and no directory.
C5_NonDirectories ==
    (Returned("list_dir_tree") /\ os_path_isdir(pre, call.path))
        => ListsExactly(Under({"file", "link"}))

\* A listing with a file two levels down and a dangling link in it.
C5_Witness ==
    /\ Returned("list_dir_tree")
    /\ os_path_isdir(pre, call.path)
    /\ \E i, j \in 1..Len(Listed) :
          /\ Kind(pre, Listed[i]) = "link"
          /\ Kind(pre, Listed[j]) = "file"
          /\ Len(Listed[j]) = Len(call.path) + 2

\* Whether r occurs in s, whether s is t with characters left out, and how
\* often c is in s.
Occurs(r, s) == \E i \in 1..(Len(s) - Len(r) + 1) : SubSeq(s, i, i + Len(r) - 1) = r

RECURSIVE IsSubseq(_, _)
IsSubseq(s, t) ==
    IF s = <<>> THEN TRUE
    ELSE IF t = <<>> THEN FALSE
    ELSE IF s[1] = t[1] THEN IsSubseq(Tail(s), Tail(t))
    ELSE IsSubseq(s, Tail(t))

Count(c, s) == Cardinality({i \in 1..Len(s) : s[i] = c})

\* C6: after fix_encoding(path, remove_chars=R) the file holds no occurrence
\* of a string of R, and its other characters are kept, in their order.
C6_Stripped ==
    (Returned("fix_encoding") /\ call.err = "ok")
        => LET R == {call.remove_chars[i] : i \in 1..Len(call.remove_chars)}
               old == pre[call.path].data
               new == fs[call.path].data
           IN  /\ \A r \in R : ~Occurs(r, new)
               /\ IsSubseq(new, old)
               /\ \A c \in Chars :
                     (\A r \in R : Count(c, r) = 0) => Count(c, new) = Count(c, old)

\* C7: a rename_file(path, new_name) of a file that returns leaves the file,
\* with its content, at new_name in the directory of path, nothing at path,
\* and every entry outside that directory as it was.
C7_SameParent ==
    (Returned("rename_file") /\ call.err = "ok" /\ os_path_isfile(pre, call.path))
        => LET parent == Parent(call.path)
               name == IF IsAbs(call.arg) THEN Tail(call.arg) ELSE call.arg
           IN  /\ Len(name) = 1
               /\ fs[parent \o name] = pre[call.path]
               /\ Kind(fs, call.path) = "none"
               /\ \A q \in Paths : Parent(q) # parent => fs[q] = pre[q]

\* C8: after a make_folder(p) that succeeds, p and its ancestors are
\* directories, and a second make_folder(p) does not raise and changes
\* nothing.
C8_MakeFolderIdempotent ==
    (Returned("make_folder") /\ call.err = "ok")
        => /\ \A n \in 1..Len(call.path) : os_path_isdir(fs, SubSeq(call.path, 1, n))
           /\ \A q \in Paths : Kind(pre, q) # "none" => fs[q] = pre[q]
           /\ make_folder(fs, call.path) = Ok(fs)

\* A make_folder has made a directory and the missing directory above it.
C8_Witness ==
    /\ Returned("make_folder")
    /\ call.err = "ok"
    /\ Len(call.path) >= 2
    /\ Kind(pre, Parent(call.path)) = "none"
    /\ Entries(pre) # {}

\* C9: a move_file that stood between its check and its move completes
\* without raising onto a path that was a file at the moment of the move
\* only when another process created that file after the check: and there is
\* such an interleaving (the witness).
C9_OnlyByRace ==
    (Returned("move_file") /\ call.err = "ok" /\ os_path_isfile(pre, call.arg))
        => call.arg \in ext

\* move_file has returned without raising, its file now where the file of
\* the other process, created after the check, was a step before.
C9_Witness ==
    /\ Returned("move_file")
    /\ call.err = "ok"
    /\ call.arg \in ext
    /\ os_path_isfile(pre, call.arg)
    /\ os_path_isfile(pre, call.path)
    /\ pre[call.arg] # pre[call.path]
    /\ fs[call.arg] = pre[call.path]

\* Each content is held by as many files as before the call, or more.
ContentsKept == \A d \in Data : Cardinality(Holding(fs, d)) >= Cardinality(Holding(pre, d))

\* The files that are not at their path, with their content, any more.
Gone == {p \in Paths : os_path_isfile(pre, p) /\ fs[p] # pre[p]}

\* C10 as stated: a create_file, write_to_file(overwrite=False), move_file or
\* rename_file keeps the content of every file there was, and a file
\* leaves its path only as the source of a move_file or rename_file that
\* succeeds.
C10_NoClobberSourceOnly ==
    (pc = "returned" /\ Guarded(call))
        => /\ ContentsKept
           /\ \A p \in Gone :
                 /\ call.op \in {"move_file", "rename_file"}
                 /\ call.err = "ok"
                 /\ p = call.path

\* C10 as amended: the same, a file leaving its path as the source of a
\* move_file or rename_file that succeeds, or as a file of the directory that
\* is the source of one.
C10_NoClobber ==
    (pc = "returned" /\ Guarded(call))
        => /\ ContentsKept
           /\ \A p \in Gone :
                 /\ call.op \in {"move_file", "rename_file"}
                 /\ call.err = "ok"
                 /\ IsPrefix(call.path, p)
                 /\ os_path_isfile(pre, call.path) \/ os_path_isdir(pre, call.path)

\* A move_file of a directory to a new path: the file in it has left its
\* path and is, with its content, in the directory at its new path.
C10_Witness ==
    /\ Returned("move_file")
    /\ call.err = "ok"
    /\ os_path_isdir(pre, call.path)
    /\ Kind(pre, call.arg) = "none"
    /\ \E p \in Gone :
          /\ pre[p].data # <<>>
          /\ fs[call.arg \o <<Base(p)>>] = pre[p]

=============================================================================
